---- MODULE Spec2Model ----
(***************************************************************************)
(* A model of pass-words.py: option processing, validation, construction   *)
(* of the word pool, the entropy report and the sampling of the password.  *)
(*                                                                         *)
(* Text is a sequence of one-character strings.  Arbitrary-precision       *)
(* integers of the entropy table (up to 94^20) are kept as little-endian   *)
(* sequences of base-10000 limbs, with the empty sequence for zero.        *)
(***************************************************************************)
EXTENDS Integers, Sequences, FiniteSets, TLC

VARIABLES
    fs,              \* the file system: path -> sequence of raw lines
    default_paths,   \* DEFAULT_WORDS_PATHS, computed at import time
    getopt_exc,      \* the message of getopt's GetoptError, or None
    opts,            \* result of getopt: the sequence of (option, argument)
    idx,             \* position of the option loop in opts
    pc,              \* position of main()
    words_paths, word_count, max_word_len, min_word_len, word_separator, verbose,
    entropies,       \* list of <<choices, description>>
    words,           \* the pool: the set built at lines 171-176
    opened,          \* the word-list files opened so far, in order
    len_words, choices,
    calls,           \* recursive calls made by count_choices
    sample,          \* the list random.sample returns (the code rebinds words to it)
    stdout, stderr, exitcode

vars == <<fs, default_paths, getopt_exc, opts, idx, pc, words_paths, word_count, max_word_len,
          min_word_len, word_separator, verbose, entropies, words, opened,
          len_words, choices, calls, sample, stdout, stderr, exitcode>>

None == "None"

(* ------------------------------ bounds --------------------------------- *)
MaxOpts == 2
MaxCount == 3
MaxN == 10
MaxK == 7

(* ------------------------- program constants --------------------------- *)
DEFAULT_MAX_WORD_LEN == 8
DEFAULT_MIN_WORD_LEN == 4
DEFAULT_WORD_COUNT == 5
DEFAULT_WORD_SEPARATOR == <<" ">>

(* ------------------------------ text ----------------------------------- *)
UpperCase == <<"A","B","C","D","E","F","G","H","I","J","K","L","M",
               "N","O","P","Q","R","S","T","U","V","W","X","Y","Z">>
LowerCase == <<"a","b","c","d","e","f","g","h","i","j","k","l","m",
               "n","o","p","q","r","s","t","u","v","w","x","y","z">>
Whitespace == {" ", "\t", "\n", "\r"}

\* str.lower() on one character
LowerChar(c) ==
    IF \E j \in 1..26 : UpperCase[j] = c
    THEN LowerCase[CHOOSE j \in 1..26 : UpperCase[j] = c]
    ELSE c

\* str.lower()
Lower(s) == [j \in 1..Len(s) |-> LowerChar(s[j])]

RECURSIVE LStrip(_)
LStrip(s) == IF s # <<>> /\ Head(s) \in Whitespace THEN LStrip(Tail(s)) ELSE s

RECURSIVE RStrip(_)
RStrip(s) ==
    IF s # <<>> /\ s[Len(s)] \in Whitespace
    THEN RStrip(SubSeq(s, 1, Len(s) - 1))
    ELSE s

\* str.strip()
Strip(s) == RStrip(LStrip(s))

\* line.strip().lower()
Normalize(line) == Lower(Strip(line))

\* the separator after every word
RECURSIVE JoinTrailing(_, _)
JoinTrailing(sep, ws) ==
    IF ws = <<>> THEN <<>> ELSE ws[1] \o sep \o JoinTrailing(sep, Tail(ws))

\* sep.join(list)
RECURSIVE Join(_, _)
Join(sep, ws) ==
    IF ws = <<>> THEN <<>>
    ELSE IF Len(ws) = 1 THEN ws[1]
    ELSE ws[1] \o sep \o Join(sep, Tail(ws))

(* ----------------------- arbitrary-precision integers ------------------ *)
RECURSIVE ToBig(_)
ToBig(n) == IF n = 0 THEN <<>> ELSE <<n % 10000>> \o ToBig(n \div 10000)

RECURSIVE BigMulCarry(_, _, _)
BigMulCarry(a, m, carry) ==
    IF a = <<>> THEN ToBig(carry)
    ELSE LET t == a[1] * m + carry
         IN  <<t % 10000>> \o BigMulCarry(Tail(a), m, t \div 10000)

BigMul(a, m) == IF m = 0 THEN <<>> ELSE BigMulCarry(a, m, 0)

\* base ** e
RECURSIVE BigPow(_, _)
BigPow(base, e) == IF e = 0 THEN <<1>> ELSE BigMul(BigPow(base, e - 1), base)

RECURSIVE BigLessFrom(_, _, _)
BigLessFrom(a, b, j) ==
    IF j = 0 THEN FALSE
    ELSE IF a[j] # b[j] THEN a[j] < b[j]
    ELSE BigLessFrom(a, b, j - 1)

BigLess(a, b) ==
    IF Len(a) # Len(b) THEN Len(a) < Len(b) ELSE BigLessFrom(a, b, Len(a))

(* ------------------------------ inputs --------------------------------- *)
\* Raw lines of word-list files, as iteration over the open file yields them.
RawDoor == <<"d","o","o","r","\n">>
RawDoorCaps == <<" ","D","o","o","r"," ","\n">>
RawCat == <<"c","a","t","\n">>
RawLamp == <<"l","a","m","p","\n">>
RawLampTab == <<"\t","L","A","M","P">>
RawStaple == <<"S","t","a","p","l","e","\r","\n">>
RawBatteries == <<"b","a","t","t","e","r","i","e","s","\n">>

Files == {"f1", "f2"}
Paths == Files \cup {"nofile"}

FirstFile == <<RawDoor, RawDoorCaps, RawCat, RawLamp>>
OtherFile == <<RawStaple, RawBatteries, RawLampTab>>

\* The file systems considered: two word lists, equal or different.
FileSystems == {f \in [Files -> {FirstFile, OtherFile}] : f["f1"] = FirstFile}

\* One (option, argument) pair of getopt's result.  The argument of -c, -m and
\* -n is the text of the integer n when valid, and some other text otherwise;
\* the argument of -p is path and that of -s is sep.  The long forms (--count,
\* ...) take the same branches as the short ones and are not listed.
Opt(o, valid, n, path, sep) ==
    [o |-> o, valid |-> valid, n |-> n, path |-> path, sep |-> sep]

IntOpt(o, n) == Opt(o, TRUE, n, "", <<>>)
BadIntOpt(o) == Opt(o, FALSE, 0, "", <<>>)

Options ==
    {IntOpt("-c", n) : n \in 0..MaxCount} \cup {BadIntOpt("-c")}
    \cup {IntOpt("-m", n) : n \in {3, 5}} \cup {BadIntOpt("-m")}
    \cup {IntOpt("-n", n) : n \in {2, 5}} \cup {BadIntOpt("-n")}
    \cup {Opt("-p", TRUE, 0, p, <<>>) : p \in Paths}
    \cup {Opt("-s", TRUE, 0, "", <<"-">>)}
    \cup {Opt("-v", TRUE, 0, "", <<>>), Opt("-h", TRUE, 0, "", <<>>)}

OptLists == UNION {[1..n -> Options] : n \in 0..MaxOpts}

(* --------------------------- pure functions ---------------------------- *)
\* os.path.isfile(a)
IsFile(a) == a \in DOMAIN fs

\* the pool started afresh for every file
RECURSIVE AddLinesAfresh(_, _, _, _)
AddLinesAfresh(ws, lines, lo, hi) ==
    IF lines = <<>> THEN {}
    ELSE LET line == Normalize(Head(lines))
         IN  (IF lo <= Len(line) /\ Len(line) <= hi THEN {line} ELSE {})
             \cup AddLinesAfresh(ws, Tail(lines), lo, hi)

\* the body of the loop over the lines of one file (lines 174-176)
RECURSIVE AddLines(_, _, _, _)
AddLines(ws, lines, lo, hi) ==
    IF lines = <<>> THEN ws
    ELSE LET line == Normalize(Head(lines))
         IN  AddLines(IF lo <= Len(line) /\ Len(line) <= hi
                      THEN ws \cup {line} ELSE ws,
                      Tail(lines), lo, hi)

\* the recursion without the decrement of len_w
RECURSIVE count_choices_power(_, _)
count_choices_power(len_w, w_count) ==
    IF w_count = 1 THEN [value |-> len_w, calls |-> 0, raised |-> FALSE]
    ELSE IF ~(w_count > 1) THEN [value |-> 0, calls |-> 0, raised |-> TRUE]
    ELSE LET r == count_choices_power(len_w, w_count - 1)
         IN  [value |-> len_w * r.value, calls |-> r.calls + 1, raised |-> r.raised]

\* count_choices, with the number of recursive calls it makes and whether its
\* assertion fails
RECURSIVE count_choices(_, _)
count_choices(len_w, w_count) ==
    IF w_count = 1 THEN [value |-> len_w, calls |-> 0, raised |-> FALSE]
    ELSE IF ~(w_count > 1) THEN [value |-> 0, calls |-> 0, raised |-> TRUE]
    ELSE LET r == count_choices(len_w - 1, w_count - 1)
         IN  [value |-> len_w * r.value, calls |-> r.calls + 1, raised |-> r.raised]

\* the reference alphabets: description and len(text)
desc_texts ==
    << <<"ASCII lowercase letters", 26>>,
       <<"ASCII letters", 52>>,
       <<"ASCII letters or digits", 62>>,
       <<"ASCII printable non whitespace", 94>> >>

counts == <<8, 10, 16, 20>>

\* the entropies list built in verbose mode, in the order of itertools.product
ReferenceEntropies ==
    [j \in 1..(Len(desc_texts) * Len(counts)) |->
        LET d == desc_texts[((j - 1) \div Len(counts)) + 1]
            n == counts[((j - 1) % Len(counts)) + 1]
        IN  <<BigPow(d[2], n), <<n, d[2], d[1]>>>>]

\* Order of two description strings "{n:2d}*[{size:d} ...": by the number n
\* in its two-column field, then by size.  Reached only between records of
\* equal choice-count.
DescLess(d1, d2) == d1[1] < d2[1] \/ (d1[1] = d2[1] /\ d1[2] < d2[2])

\* order of the (choices, choices_desc) tuples
EntropyLess(x, y) == BigLess(x[1], y[1]) \/ (x[1] = y[1] /\ DescLess(x[2], y[2]))

\* the list left as built
Unsorted(s) == s

RECURSIVE InsertEntropy(_, _)
InsertEntropy(e, s) ==
    IF s = <<>> THEN <<e>>
    ELSE IF EntropyLess(e, Head(s)) THEN <<e>> \o s
    ELSE <<Head(s)>> \o InsertEntropy(e, Tail(s))

\* entropies.sort()
RECURSIVE SortEntropies(_)
SortEntropies(s) ==
    IF s = <<>> THEN <<>> ELSE InsertEntropy(Head(s), SortEntropies(Tail(s)))

\* the logarithm taken whatever n is
LogAlways(n) == TRUE

\* the condition of "math.log(n, 2) if n else 0"
LogTaken(n) == n # <<>>

\* math.log(n, 2) raises ValueError for n = 0
MathLogRaises(n) == n = <<>>

\* the line printed for one record
EntropyLine(e) == [kind |-> "entropy", n |-> e[1], log |-> LogTaken(e[1]), desc |-> e[2]]

TextLine(t) == [kind |-> "text", text |-> t]

\* the lines the loop at 193-195 prints before it ends or raises
RECURSIVE EntropyLines(_)
EntropyLines(es) ==
    IF es = <<>> \/ (LogTaken(Head(es)[1]) /\ MathLogRaises(Head(es)[1])) THEN <<>>
    ELSE <<EntropyLine(Head(es))>> \o EntropyLines(Tail(es))

\* k draws that put the drawn word back
RECURSIVE SampleWithReplacement(_, _)
SampleWithReplacement(population, k) ==
    IF k = 0 THEN {<<>>}
    ELSE UNION {{<<w>> \o t : t \in SampleWithReplacement(population, k - 1)} :
                w \in population}

\* the possible results of random.sample(population, k): k draws without
\* replacement
RECURSIVE RandomSample(_, _)
RandomSample(population, k) ==
    IF k = 0 THEN {<<>>}
    ELSE UNION {{<<w>> \o t : t \in RandomSample(population \ {w}, k - 1)} :
                w \in population}

\* the orders in which list(a_set) can enumerate a set
Orderings(S) == RandomSample(S, Cardinality(S))

(* ------------------------------- state --------------------------------- *)
env == <<fs, default_paths, getopt_exc, opts>>
work == <<entropies, words, opened, len_words, choices, calls, sample>>

Init ==
    /\ fs \in FileSystems
    /\ default_paths \in SUBSET Files
    /\ \/ getopt_exc = None /\ opts \in OptLists
       \/ getopt_exc = "option not recognized" /\ opts = <<>>
    /\ idx = 1
    /\ pc = "getopt"
    /\ words_paths = <<>>
    /\ word_count = DEFAULT_WORD_COUNT
    /\ max_word_len = DEFAULT_MAX_WORD_LEN
    /\ min_word_len = DEFAULT_MIN_WORD_LEN
    /\ word_separator = DEFAULT_WORD_SEPARATOR
    /\ verbose = FALSE
    /\ entropies = <<>>
    /\ words = {}
    /\ opened = <<>>
    /\ len_words = 0
    /\ choices = 0
    /\ calls = 0
    /\ sample = <<>>
    /\ stdout = <<>>
    /\ stderr = <<>>
    /\ exitcode = None

\* usage_exit(msg): the error and the usage text go to stderr when msg is
\* given, the usage text goes to stdout otherwise; then sys.exit(exitcode)
usage_exit(msg) ==
    /\ stderr' = IF msg # None /\ msg # ""
                 THEN stderr \o <<[kind |-> "error", msg |-> msg], [kind |-> "usage"]>>
                 ELSE stderr
    /\ stdout' = IF msg # None /\ msg # ""
                 THEN stdout
                 ELSE stdout \o (IF msg # None THEN <<[kind |-> "error", msg |-> msg]>> ELSE <<>>)
                             \o <<[kind |-> "usage"]>>
    /\ exitcode' = IF msg # None THEN 1 ELSE 0
    /\ pc' = "exit"

\* an exception nobody catches: traceback on stderr, exit status 1
Uncaught(exc) ==
    /\ stderr' = Append(stderr, [kind |-> "traceback", exc |-> exc])
    /\ exitcode' = 1
    /\ pc' = "exit"

Continue == UNCHANGED <<stdout, stderr, exitcode, pc>>

AtOption(o) == pc = "options" /\ idx <= Len(opts) /\ opts[idx].o = o

\* lines 103-119
Getopt ==
    /\ pc = "getopt"
    /\ IF getopt_exc # None
       THEN usage_exit(getopt_exc)
       ELSE pc' = "options" /\ UNCHANGED <<stdout, stderr, exitcode>>
    /\ UNCHANGED <<env, idx, work, words_paths, word_count, max_word_len,
                   min_word_len, word_separator, verbose>>

\* lines 122-126
OptCount ==
    /\ AtOption("-c")
    /\ IF opts[idx].valid
       THEN word_count' = opts[idx].n /\ idx' = idx + 1 /\ Continue
       ELSE usage_exit("--count invalid literal for int()") /\ UNCHANGED <<word_count, idx>>
    /\ UNCHANGED <<env, work, words_paths, max_word_len, min_word_len,
                   word_separator, verbose>>

\* lines 127-131
OptMax ==
    /\ AtOption("-m")
    /\ IF opts[idx].valid
       THEN max_word_len' = opts[idx].n /\ idx' = idx + 1 /\ Continue
       ELSE usage_exit("--max invalid literal for int()") /\ UNCHANGED <<max_word_len, idx>>
    /\ UNCHANGED <<env, work, words_paths, word_count, min_word_len,
                   word_separator, verbose>>

\* lines 132-136
OptMin ==
    /\ AtOption("-n")
    /\ IF opts[idx].valid
       THEN min_word_len' = opts[idx].n /\ idx' = idx + 1 /\ Continue
       ELSE usage_exit("--min invalid literal for int()") /\ UNCHANGED <<min_word_len, idx>>
    /\ UNCHANGED <<env, work, words_paths, word_count, max_word_len,
                   word_separator, verbose>>

\* a -p argument that is no file is skipped instead of rejected
OptPathSkipMissing ==
    /\ AtOption("-p")
    /\ words_paths' = IF IsFile(opts[idx].path)
                      THEN Append(words_paths, opts[idx].path) ELSE words_paths
    /\ idx' = idx + 1
    /\ Continue
    /\ UNCHANGED <<env, work, word_count, max_word_len, min_word_len,
                   word_separator, verbose>>

\* lines 137-140
OptPath ==
    /\ AtOption("-p")
    /\ IF ~IsFile(opts[idx].path)
       THEN usage_exit("--path is not a file") /\ UNCHANGED <<words_paths, idx>>
       ELSE words_paths' = Append(words_paths, opts[idx].path) /\ idx' = idx + 1 /\ Continue
    /\ UNCHANGED <<env, work, word_count, max_word_len, min_word_len,
                   word_separator, verbose>>

\* lines 141-142
OptSep ==
    /\ AtOption("-s")
    /\ word_separator' = opts[idx].sep
    /\ idx' = idx + 1
    /\ Continue
    /\ UNCHANGED <<env, work, words_paths, word_count, max_word_len,
                   min_word_len, verbose>>

\* lines 143-144
OptVerbose ==
    /\ AtOption("-v")
    /\ verbose' = TRUE
    /\ idx' = idx + 1
    /\ Continue
    /\ UNCHANGED <<env, work, words_paths, word_count, max_word_len,
                   min_word_len, word_separator>>

\* lines 145-146
OptHelp ==
    /\ AtOption("-h")
    /\ usage_exit(None)
    /\ UNCHANGED <<env, idx, work, words_paths, word_count, max_word_len,
                   min_word_len, word_separator, verbose>>

\* lines 149-169: the check of the bounds, the reset of min_word_len, the
\* reference records of verbose mode and the default word-list paths
Prepare ==
    /\ pc = "options" /\ idx > Len(opts)
    /\ IF max_word_len < min_word_len
       THEN /\ usage_exit("--max < --min")
            /\ UNCHANGED <<min_word_len, entropies, words_paths>>
       ELSE /\ min_word_len' = DEFAULT_MIN_WORD_LEN
            /\ entropies' = IF verbose THEN ReferenceEntropies ELSE <<>>
            /\ IF words_paths = <<>>
               THEN words_paths' \in Orderings(default_paths)
               ELSE UNCHANGED words_paths
            /\ pc' = "read"
            /\ UNCHANGED <<stdout, stderr, exitcode>>
    /\ UNCHANGED <<env, idx, words, opened, len_words, choices, calls, sample,
                   word_count, max_word_len, word_separator, verbose>>

\* lines 172-176, one file: open it, add its lines to the pool, close it
ReadWords ==
    /\ pc = "read" /\ Len(opened) < Len(words_paths)
    /\ LET wp == words_paths[Len(opened) + 1]
       IN  /\ opened' = Append(opened, wp)
           /\ words' = AddLines(words, fs[wp], min_word_len, max_word_len)
    /\ Continue
    /\ UNCHANGED <<env, idx, entropies, len_words, choices, calls, sample,
                   words_paths, word_count, max_word_len, min_word_len,
                   word_separator, verbose>>

\* lines 184-195: the choice-count of the pool, its record, the sort and
\* the printed report.  Without assertions (python -O) a word count below 1
\* ends in RecursionError instead of AssertionError.
Report ==
    /\ pc = "read" /\ Len(opened) = Len(words_paths)
    /\ len_words' = Cardinality(words)
    /\ LET r == count_choices(Cardinality(words), word_count)
           desc == <<word_count, Cardinality(words), "words",
                     min_word_len, max_word_len, words_paths>>
           all == Append(entropies, <<ToBig(r.value), desc>>)
           sorted == SortEntropies(all)
           header == IF Len(all) > 1 THEN <<[kind |-> "header"]>> ELSE <<>>
           lines == EntropyLines(sorted)
       IN  IF r.raised
           THEN /\ \E exc \in {"AssertionError", "RecursionError"} : Uncaught(exc)
                /\ UNCHANGED <<choices, calls, entropies, stdout>>
           ELSE /\ choices' = r.value
                /\ calls' = r.calls
                /\ entropies' = sorted
                /\ stdout' = stdout \o header \o lines
                /\ IF Len(lines) < Len(sorted)
                   THEN Uncaught("ValueError: math domain error")
                   ELSE pc' = "sample" /\ UNCHANGED <<stderr, exitcode>>
    /\ UNCHANGED <<env, idx, words, opened, sample, words_paths, word_count,
                   max_word_len, min_word_len, word_separator, verbose>>

\* lines 197-198
Sample ==
    /\ pc = "sample"
    /\ IF word_count > Cardinality(words) \/ word_count < 0
       THEN Uncaught("ValueError: Sample larger than population or is negative")
            /\ UNCHANGED sample
       ELSE sample' \in RandomSample(words, word_count)
            /\ pc' = "print" /\ UNCHANGED <<stderr, exitcode>>
    /\ UNCHANGED <<env, idx, entropies, words, opened, len_words, choices, calls,
                   stdout, words_paths, word_count, max_word_len, min_word_len,
                   word_separator, verbose>>

\* lines 199-202, and the normal end of the process
PrintPassword ==
    /\ pc = "print"
    /\ stdout' = stdout \o [j \in 1..Len(sample) |-> TextLine(sample[j])]
                        \o <<TextLine(Join(word_separator, sample))>>
    /\ exitcode' = 0
    /\ pc' = "exit"
    /\ UNCHANGED <<env, idx, work, stderr, words_paths, word_count, max_word_len,
                   min_word_len, word_separator, verbose>>

Next ==
    \/ Getopt
    \/ OptCount
    \/ OptMax
    \/ OptMin
    \/ OptPath
    \/ OptSep
    \/ OptVerbose
    \/ OptHelp
    \/ Prepare
    \/ ReadWords
    \/ Report
    \/ Sample
    \/ PrintPassword

Spec == Init /\ [][Next]_vars

(* ------------------- count_choices on its own -------------------------- *)
InitChoices ==
    /\ fs \in [Files -> {<<>>}]
    /\ default_paths = {}
    /\ getopt_exc = None
    /\ opts = <<>>
    /\ idx = 1
    /\ pc = "count_choices"
    /\ words_paths = <<>>
    /\ word_count \in 1..MaxK
    /\ max_word_len = DEFAULT_MAX_WORD_LEN
    /\ min_word_len = DEFAULT_MIN_WORD_LEN
    /\ word_separator = DEFAULT_WORD_SEPARATOR
    /\ verbose = FALSE
    /\ entropies = <<>>
    /\ words = {}
    /\ opened = <<>>
    /\ len_words \in 0..MaxN
    /\ choices = 0
    /\ calls = 0
    /\ sample = <<>>
    /\ stdout = <<>>
    /\ stderr = <<>>
    /\ exitcode = None

\* line 185 alone, for a pool size and a word count given directly
CountChoices ==
    /\ pc = "count_choices"
    /\ LET r == count_choices(len_words, word_count)
       IN  choices' = r.value /\ calls' = r.calls
    /\ pc' = "counted"
    /\ UNCHANGED <<env, idx, entropies, words, opened, len_words, sample, stdout,
                   stderr, exitcode, words_paths, word_count, max_word_len,
                   min_word_len, word_separator, verbose>>

NextChoices == CountChoices

SpecChoices == InitChoices /\ [][NextChoices]_vars

(* ------------------------------ helpers -------------------------------- *)
Range(s) == {s[j] : j \in 1..Len(s)}

Max(S) == CHOOSE x \in S : \A y \in S : y <= x

\* the argument of the last occurrence of option o, or dflt without one
FlagValue(o, dflt) ==
    LET at == {j \in 1..Len(opts) : opts[j].o = o}
    IN  IF at = {} THEN dflt ELSE opts[Max(at)].n

HelpRequested == \E j \in 1..Len(opts) : opts[j].o = "-h"

BadPathAt(j) == opts[j].o = "-p" /\ opts[j].path \notin Files

HasBadPath == \E j \in 1..Len(opts) : BadPathAt(j)

UsagePrinted(stream) == \E j \in 1..Len(stream) : stream[j].kind = "usage"

ErrorPrinted(stream) == \E j \in 1..Len(stream) : stream[j].kind = "error"

\* the run got past the options and the validation
PoolPhase == pc \in {"read", "sample", "print"}
             \/ (pc = "exit" /\ ~UsagePrinted(stdout) /\ ~UsagePrinted(stderr))

\* every file of words_paths has been read
PoolComplete == PoolPhase /\ Len(opened) = Len(words_paths)

\* the report at lines 190-195 has been printed
ReportDone == pc \in {"sample", "print"}

Success == pc = "exit" /\ exitcode = 0 /\ ~UsagePrinted(stdout)

EntropyPrinted == SelectSeq(stdout, LAMBDA l : l.kind = "entropy")

IsLowerText(w) == \A j \in 1..Len(w) : w[j] \notin Range(UpperCase)

IsStripped(w) == w = <<>> \/ (w[1] \notin Whitespace /\ w[Len(w)] \notin Whitespace)

Injective(s) == \A a, b \in DOMAIN s : a # b => s[a] # s[b]

(* ------------------------------ C1 ------------------------------------- *)
\* C1: every word of the pool has a length between the minimum given with
\* -n/--min (4 without the flag) and the maximum, is lowercase and has no
\* leading or trailing whitespace.
C1_PoolWithinFlagBounds ==
    \A w \in words :
        /\ FlagValue("-n", DEFAULT_MIN_WORD_LEN) <= Len(w)
        /\ Len(w) <= max_word_len
        /\ IsLowerText(w)
        /\ IsStripped(w)

(* ------------------------------ C2 ------------------------------------- *)
\* C2: a run asking for k >= 1 words of a pool with fewer than k words ends
\* in an error with nothing written to standard output.
C2_NoOutputOnInsufficientPool ==
    (pc = "exit" /\ PoolComplete /\ word_count >= 1 /\ word_count > Cardinality(words))
        => (exitcode = 1 /\ stdout = <<>>)

(* ------------------------------ C3 ------------------------------------- *)
\* C3: a run without a help request whose word count is below 1 or whose
\* maximum is below its minimum prints an error and the usage text to
\* stderr and exits with 1 without having opened a word-list file.
C3_InvalidRequestRejectedBeforeRead ==
    (/\ pc = "exit"
     /\ getopt_exc = None
     /\ ~HelpRequested
     /\ \/ FlagValue("-c", DEFAULT_WORD_COUNT) < 1
        \/ FlagValue("-m", DEFAULT_MAX_WORD_LEN) < FlagValue("-n", DEFAULT_MIN_WORD_LEN))
        => (/\ exitcode = 1
            /\ ErrorPrinted(stderr) /\ UsagePrinted(stderr)
            /\ opened = <<>>)

(* ------------------------------ C4 ------------------------------------- *)
\* C4 as stated: with a -p argument that is no regular file among the
\* options, in any position, the run exits with 1 and never opens a file.
C4_BadPathAlwaysExitsOne ==
    HasBadPath => (opened = <<>> /\ (pc = "exit" => exitcode = 1))

FirstBadPath == CHOOSE j \in 1..Len(opts) : BadPathAt(j) /\ \A h \in 1..(j - 1) : ~BadPathAt(h)

\* C4 amended: with such a -p argument among the options the run never
\* reaches the reading of word lists and opens no file, and it exits with 1
\* unless a help option precedes the first such argument.
C4_BadPathNeverReads ==
    HasBadPath =>
        /\ opened = <<>>
        /\ pc \in {"getopt", "options", "exit"}
        /\ (pc = "exit" /\ \A h \in 1..(FirstBadPath - 1) : opts[h].o # "-h")
               => exitcode = 1

C4_Witness ==
    /\ pc = "exit" /\ HasBadPath /\ exitcode = 1
    /\ words_paths # <<>> /\ idx = FirstBadPath

(* ------------------------------ C5 ------------------------------------- *)
\* C5: for 1 <= k <= pool size the sampling step returns exactly k words,
\* all of the pool and pairwise distinct, and every ordered selection of k
\* distinct pool words is a result it can return.
C5_SampleDistinctPoolWords ==
    /\ pc = "print" =>
          /\ Len(sample) = word_count
          /\ Range(sample) \subseteq words
          /\ Injective(sample)
    /\ (pc = "sample" /\ 1 <= word_count /\ word_count <= Cardinality(words)) =>
          \A s \in {t \in [1..word_count -> words] : Injective(t)} :
              ENABLED (Sample /\ sample' = s)

C5_Witness ==
    /\ pc = "print" /\ Len(sample) = 2 /\ Cardinality(words) = 3
    /\ sample[1] = Normalize(RawStaple) /\ sample[2] = Normalize(RawDoor)

(* ------------------------------ C6 ------------------------------------- *)
\* the product of the integers lo..hi, from the lowest
RECURSIVE ProductOf(_, _)
ProductOf(lo, hi) == IF lo > hi THEN 1 ELSE lo * ProductOf(lo + 1, hi)

\* C6: for 1 <= k <= n, count_choices(n, k) is n*(n-1)*...*(n-k+1): n for
\* k = 1, n! for k = n, count_choices(n, k) * (n-k) for k+1, and 360 for (6, 4).
C6_FallingFactorial ==
    (pc = "counted" /\ 1 <= word_count /\ word_count <= len_words) =>
        /\ choices = ProductOf(len_words - word_count + 1, len_words)
        /\ word_count = 1 => choices = len_words
        /\ word_count = len_words => choices = ProductOf(1, len_words)
        /\ word_count < len_words =>
              count_choices(len_words, word_count + 1).value
                  = choices * (len_words - word_count)
        /\ (len_words = 6 /\ word_count = 4) => choices = 360

C6_Witness == pc = "counted" /\ len_words = 6 /\ word_count = 4 /\ choices = 360

(* ------------------------------ C7 ------------------------------------- *)
RECURSIVE TotalLen(_, _)
TotalLen(ws, j) == IF j = 0 THEN 0 ELSE Len(ws[j]) + TotalLen(ws, j - 1)

\* where the j-th word starts in the joined line, less one
Offset(ws, sep, j) == TotalLen(ws, j - 1) + (j - 1) * Len(sep)

\* text is the words ws in order with sep between neighbours
IsJoined(text, ws, sep) ==
    /\ Len(text) = TotalLen(ws, Len(ws)) + (Len(ws) - 1) * Len(sep)
    /\ \A j \in 1..Len(ws) :
          SubSeq(text, Offset(ws, sep, j) + 1, Offset(ws, sep, j) + Len(ws[j])) = ws[j]
    /\ \A j \in 1..(Len(ws) - 1) :
          SubSeq(text, Offset(ws, sep, j) + Len(ws[j]) + 1, Offset(ws, sep, j + 1)) = sep

\* after m lines of report come the sampled words, one per line, and the
\* joined line ends the output
WordsThenJoined(m) ==
    /\ Len(sample) = word_count
    /\ Len(stdout) = m + word_count + 1
    /\ \A j \in 1..word_count :
          stdout[m + j].kind = "text" /\ stdout[m + j].text = sample[j]
    /\ stdout[Len(stdout)].kind = "text"
    /\ IsJoined(stdout[Len(stdout)].text, sample, word_separator)

\* C7 as stated: a successful run writes the entropy lines only when
\* verbose, then the k sampled words in order, then the joined line.
C7_EntropyOnlyWhenVerbose ==
    Success =>
        LET m == Len(stdout) - word_count - 1
        IN  /\ m >= 0
            /\ \A j \in 1..m : stdout[j].kind \in {"header", "entropy"}
            /\ ~verbose => m = 0
            /\ WordsThenJoined(m)

\* C7 amended: a successful run writes the entropy report, which is the
\* heading and the 17 entropy lines when verbose and the one entropy line
\* of the word pool otherwise, then the k sampled words in order, then the
\* joined line.
C7_ReportWordsJoined ==
    Success =>
        LET m == IF verbose THEN Len(desc_texts) * Len(counts) + 2 ELSE 1
        IN  /\ verbose => stdout[1].kind = "header"
            /\ \A j \in (IF verbose THEN 2 ELSE 1)..m : stdout[j].kind = "entropy"
            /\ ~verbose => stdout[1].desc[3] = "words"
            /\ WordsThenJoined(m)

C7_Witness ==
    /\ Success /\ ~verbose /\ word_count = 2
    /\ word_separator = <<"-">> /\ Len(stdout) = 4

(* ------------------------------ C8 ------------------------------------- *)
Min(S) == CHOOSE x \in S : \A y \in S : x <= y

\* the line between its first and its last character that is no whitespace
Core(l) ==
    LET ink == {j \in 1..Len(l) : l[j] \notin Whitespace}
    IN  IF ink = {} THEN <<>> ELSE SubSeq(l, Min(ink), Max(ink))

SameLetter(x, y) ==
    x = y \/ \E h \in 1..26 : {x, y} = {UpperCase[h], LowerCase[h]}

\* the same word up to case and surrounding whitespace
SameWord(a, b) ==
    /\ Len(Core(a)) = Len(Core(b))
    /\ \A j \in 1..Len(Core(a)) : SameLetter(Core(a)[j], Core(b)[j])

\* the lines of the files read so far that pass the length filter
KeptLines ==
    {l \in UNION {Range(fs[p]) : p \in Range(opened)} :
        min_word_len <= Len(Core(l)) /\ Len(Core(l)) <= max_word_len}

\* C8: the pool holds exactly one entry, lowercase and stripped, for every
\* word of the files read, however many files or lines contribute it and in
\* whatever case or surrounding whitespace; so it is determined by the set
\* of files read, not by their order or repetition.
C8_PoolIsSetOfWords ==
    pc = "read" =>
        /\ \A l \in KeptLines : Cardinality({w \in words : SameWord(w, l)}) = 1
        /\ \A w \in words :
              /\ \E l \in KeptLines : SameWord(w, l)
              /\ IsLowerText(w) /\ IsStripped(w)

C8_Witness ==
    /\ pc = "read" /\ Len(opened) = 2
    /\ opened[1] = "f2" /\ opened[2] = "f1" /\ fs["f1"] # fs["f2"]
    /\ Normalize(RawLamp) \in words /\ Cardinality(words) = 3

(* ------------------------------ C9 ------------------------------------- *)
\* alphabet_size ^ length
ReferenceChoices == [a \in {26, 52, 62, 94}, n \in {8, 10, 16, 20} |-> BigPow(a, n)]

\* C9: the verbose report has one record for each of the 4 alphabets with
\* each of the 4 lengths, with alphabet_size ^ length choices, and one for
\* the word pool, printed in non-decreasing order of choices.
C9_ReportSorted ==
    (verbose /\ pc = "sample") =>
        LET E == EntropyPrinted
        IN  /\ Len(E) = 17
            /\ \A a \in {26, 52, 62, 94}, n \in {8, 10, 16, 20} :
                  Cardinality({j \in 1..Len(E) :
                      /\ E[j].desc[3] # "words"
                      /\ E[j].desc[1] = n /\ E[j].desc[2] = a
                      /\ E[j].n = ReferenceChoices[a, n]}) = 1
            /\ \E j \in 1..Len(E) :
                  /\ E[j].desc = <<8, 26, "ASCII lowercase letters">>
                  /\ E[j].n = <<4576, 2706, 2088>>
            /\ \E j \in 1..Len(E) :
                  /\ E[j].desc[1] = 20 /\ E[j].desc[2] = 94
                  /\ E[j].n = <<976, 6947, 7413, 7546, 3062, 2337, 4618, 1131, 624, 2901>>
            /\ Cardinality({j \in 1..Len(E) :
                  E[j].desc[3] = "words" /\ E[j].n = ToBig(choices)}) = 1
            /\ \A i, j \in 1..Len(E) : i < j => ~BigLess(E[j].n, E[i].n)

C9_Witness ==
    /\ verbose /\ pc = "sample" /\ choices > 0
    /\ Len(EntropyPrinted) = 17 /\ EntropyPrinted[1].desc[3] = "words"

(* ------------------------------ C10 ------------------------------------ *)
\* C10: for a pool of n >= 0 words and k >= 1, count_choices makes k-1
\* recursive calls and returns a non-negative integer that is 0 exactly when
\* k > n; no logarithm of zero is taken (such a record is printed with 0
\* bits) and the report is not aborted.
C10_NoLogOfZero ==
    /\ ReportDone =>
          /\ calls = word_count - 1
          /\ choices >= 0
          /\ choices = 0 <=> word_count > len_words
          /\ Len(EntropyPrinted) = Len(entropies)
          /\ \A j \in 1..Len(EntropyPrinted) :
                EntropyPrinted[j].log <=> EntropyPrinted[j].n # <<>>
    /\ \A j \in 1..Len(stderr) :
          stderr[j].kind = "traceback" => stderr[j].exc # "ValueError: math domain error"

C10_Witness ==
    /\ pc = "sample" /\ choices = 0 /\ len_words > 0 /\ word_count > len_words
    /\ ~stdout[Len(stdout)].log

====
